---- MODULE Spec2Model ----
(***************************************************************************)
(* A model of the looper reactor (src/looper/src/lib.rs) with its POSIX    *)
(* process reaper (src/looper/src/process_unix.rs).                        *)
(*                                                                         *)
(* The reactor is single threaded.  Its control state is an explicit call  *)
(* stack: run frames (Core::run), dispatch frames (one event inside        *)
(* Core::call_on_object, a user callback executing), reap frames (the      *)
(* reap_all loop) and reaper-callback frames.  While the frame on top is a *)
(* user callback, or while the stack is empty (the caller's own code), any *)
(* public Core method may be called.                                       *)
(*                                                                         *)
(* io_handlers and objects are stash::Stash values: a vector of entries,   *)
(* each Full(v) or Empty(next free index), with the free entries chained   *)
(* from next_free, so the index freed last is the one handed out next.     *)
(***************************************************************************)
EXTENDS Integers, Sequences, FiniteSets, TLC

\* ---------------------------------------------------------------- bounds
MaxSlots == 3      \* longest entry vector of a stash
MaxOps == 4        \* calls of add, remove, register_* and register_reaper
MaxRegs == 2       \* sources handed to register_*
MaxChildren == 2   \* child processes
MaxDepth == 2      \* nested calls of run
MaxBatch == 2      \* events one poll returns

VARIABLES
    objects,      \* Core.objects: Stash<Option<Box<Any>>, ObjectId>
    io_handlers,  \* Core.io_handlers: Stash<Option<IoHandler>, Token>
    exit,         \* Core.exit
    reapers,      \* Core.process_handler.reapers: VecDeque<Reaper>
    regs,         \* Core.poll: the registrations made with the poller
    sigPending,   \* the SIGCHLD stream holds an unreported edge
    child,        \* the OS state of each child process
    stack,        \* the reactor thread's call stack, top first
    nUid,         \* objects handed to add so far
    nSrc,         \* sources handed to register_* so far
    nReap,        \* children handed to register_reaper so far
    nRem,         \* remove calls so far
    owner,        \* history: per object id, the value the caller stored last
    dropDue,      \* history: values whose own callback removed them
    condemned,    \* history: handlers whose callback removed their object
    rinv,         \* history: invocations of each reaper's callback
    lateReg,      \* history: reapers registered after their child had exited
    afterExit,    \* history: batches completed since exit() was called
    orphaned,     \* history: orphan handlers dropped at their first event
    lastTop,      \* history: what the last top-of-loop check of run did
    win,          \* process_win: the reaper channel and the thread-pool waits
    build         \* construction: what the OS calls answer and what each call gave

vars == <<objects, io_handlers, exit, reapers, regs, sigPending, child, stack,
          nUid, nSrc, nReap, nRem, owner, dropDue, condemned, rinv, lateReg,
          afterExit, orphaned, lastTop, win, build>>

\* ----------------------------------------------------------------- values
Ids == 0 .. (MaxSlots - 1)
Pids == 1 .. MaxChildren

NoObj == [uid |-> 0, ty |-> "none"]

\* construction: every OS call succeeds, nothing constructed by the model's
\* construction steps
NoFailure == [signals |-> FALSE, poll |-> FALSE, regSignals |-> FALSE,
              register |-> FALSE, launch |-> FALSE, stdin |-> FALSE,
              stdout |-> FALSE, stderr |-> FALSE]
BuildIdle == [fail |-> NoFailure, core |-> "none", spawn |-> "none",
              reg |-> "none"]

\* process_win: no id sent, no wait registered, no wait callback run.
\* by[k] is the reaper whose sentinel sent chan[k], pushed the reapers that
\* have been put in the reaper list (history).
WinIdle == [chan |-> <<>>, waits |-> {}, fired |-> 0, by |-> <<>>,
            pushed |-> {}]

NoHandler == [hid |-> 0, object_id |-> 0, rd |-> "none", wr |-> "none",
              ty |-> "none", fired |-> FALSE, orph |-> "no", late |-> FALSE]

\* ------------------------------------------------------------------ Stash
Full(v) == [full |-> TRUE, v |-> v, next |-> 0]
Empty(n, blank) == [full |-> FALSE, v |-> blank, next |-> n]
EmptyStash == [data |-> <<>>, next_free |-> 0, size |-> 0]

Occupied(s, i) == (i + 1) \in DOMAIN s.data /\ s.data[i + 1].full
StashVal(s, i) == s.data[i + 1].v
StashNextIndex(s) == s.next_free
StashIsEmpty(s) == s.size = 0
StashCanPut(s) == s.next_free < Len(s.data) \/ Len(s.data) < MaxSlots

StashPut(s, v) ==
    IF s.next_free = Len(s.data)
    THEN [data |-> Append(s.data, Full(v)),
          next_free |-> s.next_free + 1,
          size |-> s.size + 1]
    ELSE [data |-> [s.data EXCEPT ![s.next_free + 1] = Full(v)],
          next_free |-> s.data[s.next_free + 1].next,
          size |-> s.size + 1]

StashTakeKeep(s, i, blank) == s

StashTake(s, i, blank) ==
    IF Occupied(s, i)
    THEN [data |-> [s.data EXCEPT ![i + 1] = Empty(s.next_free, blank)],
          next_free |-> i,
          size |-> s.size - 1]
    ELSE s

\* `*option = v` through get_mut(i)
StashSet(s, i, v) == [s EXCEPT !.data[i + 1].v = v]

\* ids a caller can hold: those add or next_id have returned
KnownIds == 0 .. Len(objects.data)
\* calls that count against the budget: add, remove, register_* and
\* register_reaper so far
Depth == Cardinality({k \in DOMAIN stack : stack[k].kind = "run"})
OpsDone == nUid + nSrc + nReap + nRem

\* ------------------------------------------------------------- the stack
Top == Head(stack)
Below == Tail(stack)
InUser == IF stack = <<>> THEN TRUE ELSE Top.kind \in {"io", "rcb"}

\* history: one probe of a scan
Probe(r, res) == [rid |-> r.rid, res |-> res]

\* what stops the thread: a panic unwinding out of run
PanicFrame == [kind |-> "panic"]

\* the registration numbers of a reaper list, in list order
Rids(rs) == [k \in DOMAIN rs |-> rs[k].rid]

RunFrame(evs, polled) == [kind |-> "run", events |-> evs, polled |-> polled]
\* history of a dispatch: what the read callback did before it returned
ReadDidNothing == [removed |-> FALSE, exit |-> FALSE]

IoFrame(token, h, obj, ev, stage) ==
    [kind |-> "io", token |-> token, h |-> h, obj |-> obj, ev |-> ev,
     stage |-> stage, selfRemoved |-> FALSE, exitCalled |-> FALSE, regd |-> {},
     readDid |-> ReadDidNothing]
\* A scan of the reaper list.  left: iterations still to do; start and
\* probed are history: the reapers (by registration number) in the list
\* when the scan began, and the probes the scan has made, in order, each
\* with what it reported.
ReapFrame(n, start) ==
    [kind |-> "reap", left |-> n, start |-> start, probed |-> <<>>]
RcbFrame(r, obj) == [kind |-> "rcb", r |-> r, obj |-> obj, selfRemoved |-> FALSE]
\* looper_core's scan: i is the index of the entry probed next
LooperCoreReapFrame(start) ==
    [kind |-> "creap", i |-> 0, start |-> start, probed |-> <<>>]
\* process_win::register_reaper between its send or wait registration and
\* its push_back
WinRegFrame(r) == [kind |-> "wreg", r |-> r]
\* start: the reaper list when the id was received; disp: the reapers
\* handed to call_on_object for this id (history)
WinReapFrame(id, start) == [kind |-> "wreap", id |-> id, left |-> Len(start),
                            start |-> start, disp |-> <<>>]

\* --------------------------------------------------------- object store
\* Core::get / Core::get_mut: the value at object_id, NoObj when the slot is
\* vacant or its value is taken for a dispatch.
Get(i) == IF Occupied(objects, i) THEN StashVal(objects, i) ELSE NoObj

\* What Core::remove(i) returns: the value in the slot, NoObj when the slot
\* is vacant or its value is taken (take(..).unwrap_or(None)).
RemoveResult(i) == IF Occupied(objects, i) THEN StashVal(objects, i) ELSE NoObj

\* Core::next_id
NextId == StashNextIndex(objects)

\* History kept in the handler records: a handler that has had no event yet
\* and whose object is removed is an orphan; an add that reuses the id
\* refills it.
MarkOrphans(hs, i) ==
    [hs EXCEPT !.data = [k \in DOMAIN hs.data |->
        IF hs.data[k].full /\ hs.data[k].v.hid # 0 /\ hs.data[k].v.object_id = i
           /\ ~hs.data[k].v.fired
        THEN [hs.data[k] EXCEPT !.v.orph = "orphan"]
        ELSE hs.data[k]]]
MarkRefilled(hs, i) ==
    [hs EXCEPT !.data = [k \in DOMAIN hs.data |->
        IF hs.data[k].full /\ hs.data[k].v.hid # 0 /\ hs.data[k].v.object_id = i
           /\ hs.data[k].v.orph = "orphan"
        THEN [hs.data[k] EXCEPT !.v.orph = "refilled"]
        ELSE hs.data[k]]]
MarkLate(hs, hids) ==
    [hs EXCEPT !.data = [k \in DOMAIN hs.data |->
        IF hs.data[k].full /\ hs.data[k].v.hid \in hids /\ hs.data[k].v.wr = "none"
        THEN [hs.data[k] EXCEPT !.v.late = TRUE]
        ELSE hs.data[k]]]

UserTypes == {"A"}

\* Core::add
Add(ty, n) ==
    /\ InUser
    /\ OpsDone < n
    /\ StashCanPut(objects)
    /\ objects' = StashPut(objects, [uid |-> nUid + 2, ty |-> ty])
    /\ nUid' = nUid + 1
    /\ owner' = [owner EXCEPT ![NextId] = nUid + 2]
    /\ io_handlers' = MarkRefilled(io_handlers, NextId)
    /\ UNCHANGED <<build, exit, reapers, regs, sigPending, child, stack, nSrc, nReap,
                   nRem, dropDue, condemned, rinv, lateReg, afterExit, lastTop, orphaned, win>>

\* A frame whose callback is bound to object id i has its own object removed.
FlagSelfRemoved(st, i) ==
    IF st = <<>> THEN <<>> ELSE
    [k \in DOMAIN st |->
        IF st[k].kind = "io" /\ st[k].h.object_id = i
        THEN [st[k] EXCEPT !.selfRemoved = TRUE]
        ELSE IF st[k].kind = "rcb" /\ st[k].r.object_id = i
        THEN [st[k] EXCEPT !.selfRemoved = TRUE]
        ELSE st[k]]

\* Core::remove, called on an id whose slot exists
Remove(i, n) ==
    /\ InUser
    /\ OpsDone < n
    /\ Occupied(objects, i)
    /\ objects' = StashTake(objects, i, NoObj)
    /\ nRem' = nRem + 1
    /\ owner' = [owner EXCEPT ![i] = 0]
    /\ io_handlers' = MarkOrphans(io_handlers, i)
    /\ stack' = FlagSelfRemoved(stack, i)
    /\ UNCHANGED <<build, exit, reapers, regs, sigPending, child, nUid, nSrc, nReap,
                   dropDue, condemned, rinv, lateReg, afterExit, lastTop, orphaned, win>>

\* ------------------------------------------------------- handler table
\* Core::internal_register, reached from register_reader ("r"),
\* register_writer ("w") and register_reader_writer ("rw").  Every call is
\* given a source of its own: the poller refuses a source it already holds.
NewHandler(src, i, kind, ty, f, late) ==
    [hid |-> src + 1, object_id |-> i,
     rd |-> IF kind \in {"r", "rw"} THEN f ELSE "none",
     wr |-> IF kind \in {"w", "rw"} THEN f ELSE "none",
     ty |-> ty, fired |-> FALSE, orph |-> "no", late |-> late]

RegisterTokenZero == StashNextIndex(EmptyStash)

\* Core::internal_register line 236
RegisterToken == StashNextIndex(io_handlers)

InternalRegister(hs, src, i, kind, ty, f, late) ==
    StashPut(hs, NewHandler(src, i, kind, ty, f, late))

InReadCallback == stack # <<>> /\ Top.kind = "io" /\ Top.stage = "read"

Register(kind, i, ty, n) ==
    /\ InUser
    /\ OpsDone < n
    /\ nSrc < MaxRegs
    /\ i \in KnownIds
    /\ StashCanPut(io_handlers)
    /\ regs' = regs \cup {[src |-> nSrc + 1, token |-> RegisterToken, kind |-> kind]}
    /\ io_handlers' = InternalRegister(io_handlers, nSrc + 1, i, kind, ty, "user",
                          InReadCallback /\ Top.exitCalled /\ kind = "r")
    /\ nSrc' = nSrc + 1
    /\ stack' = IF InReadCallback
                THEN <<[Top EXCEPT !.regd = @ \cup {nSrc + 2}]>> \o Below
                ELSE stack
    /\ UNCHANGED <<build, objects, exit, reapers, sigPending, child, nUid, nReap, nRem,
                   owner, dropDue, condemned, rinv, lateReg, afterExit, lastTop, orphaned, win>>

\* Core::exit
Exit ==
    /\ InUser
    /\ ~exit
    /\ exit' = TRUE
    /\ io_handlers' = IF InReadCallback THEN MarkLate(io_handlers, Top.regd)
                      ELSE io_handlers
    /\ stack' = IF stack # <<>> /\ Top.kind = "io"
                THEN <<[Top EXCEPT !.exitCalled = TRUE]>> \o Below
                ELSE stack
    /\ UNCHANGED <<build, objects, reapers, regs, sigPending, child, nUid, nSrc, nReap,
                   nRem, owner, dropDue, condemned, rinv, lateReg, afterExit,
                   lastTop, orphaned, win>>

\* --------------------------------------------------------------- reaper
\* process_unix::register_reaper.  Children are handed over in the order of
\* their pids, each once.
RegisterReaper(i, ty, n) ==
    /\ InUser
    /\ OpsDone < n
    /\ nReap < MaxChildren
    /\ i \in KnownIds
    /\ reapers' = Append(reapers, [rid |-> nReap + 1, pid |-> nReap + 1,
                                   object_id |-> i, ty |-> ty])
    /\ nReap' = nReap + 1
    /\ lateReg' = IF child[nReap + 1] # "running" THEN lateReg \cup {nReap + 1}
                  ELSE lateReg
    /\ UNCHANGED <<build, objects, io_handlers, exit, regs, sigPending, child, stack,
                   nUid, nSrc, nRem, owner, dropDue, condemned, rinv, afterExit,
                   lastTop, orphaned, win>>

\* The OS: a running child terminates and SIGCHLD is raised.
ChildExit(p) ==
    /\ child[p] = "running"
    /\ child' = [child EXCEPT ![p] = "zombie"]
    /\ sigPending' = TRUE
    /\ UNCHANGED <<build, objects, io_handlers, exit, reapers, regs, stack, nUid, nSrc,
                   nReap, nRem, owner, dropDue, condemned, rinv, lateReg,
                   afterExit, lastTop, orphaned, win>>

ReapAlwaysExited(p) == "exited"

ReapErrorAsExited(p) == IF child[p] = "running" THEN "alive" ELSE "exited"

\* process_unix::reap: waitpid(pid, WNOHANG), EINTR retried inside.
Reap(p) == CASE child[p] = "running" -> "alive"
             [] child[p] = "zombie" -> "exited"
             [] OTHER -> "error"

\* ------------------------------------------------------------ Core::run
\* The events one poll may return: one per registered source, the SIGCHLD
\* stream (source 0) only when a signal is pending; a reader sees readable,
\* a writer writable, a reader_writer either or both.
EvKinds(kind) ==
    CASE kind = "r" -> {<<TRUE, FALSE>>}
      [] kind = "w" -> {<<FALSE, TRUE>>}
      [] OTHER -> {<<TRUE, FALSE>>, <<FALSE, TRUE>>, <<TRUE, TRUE>>}

PollEvents ==
    UNION {{[token |-> g.token, src |-> g.src, readable |-> k[1], writable |-> k[2]]
              : k \in EvKinds(g.kind)}
           : g \in {x \in regs : x.src # 0 \/ sigPending}}

RECURSIVE BatchesOfLen(_)
BatchesOfLen(n) ==
    IF n = 0 THEN {<<>>}
    ELSE {Append(b, e) : <<b, e>> \in
            {x \in BatchesOfLen(n - 1) \X PollEvents :
                \A k \in DOMAIN x[1] : x[1][k].src # x[2].src}}

Batches == UNION {BatchesOfLen(n) : n \in 1 .. MaxBatch}

ShouldBreakOnlyEmpty == StashIsEmpty(io_handlers)

ShouldBreakOnlyExit == exit

\* lib.rs line 166: the check at the top of each loop turn
ShouldBreak == exit \/ StashIsEmpty(io_handlers)

\* Core::run is entered
RunCall(d) ==
    /\ InUser
    /\ Depth < d
    /\ stack' = <<RunFrame(<<>>, FALSE)>> \o stack
    /\ UNCHANGED <<build, objects, io_handlers, exit, reapers, regs, sigPending, child,
                   nUid, nSrc, nReap, nRem, owner, dropDue, condemned, rinv,
                   lateReg, afterExit, lastTop, orphaned, win>>

\* top of the loop: break
RunReturn ==
    /\ stack # <<>> /\ Top.kind = "run" /\ Top.events = <<>>
    /\ ShouldBreak
    /\ stack' = Below
    /\ lastTop' = [act |-> "ret", exit |-> exit, empty |-> StashIsEmpty(io_handlers)]
    /\ afterExit' = IF exit /\ Top.polled THEN afterExit + 1 ELSE afterExit
    /\ UNCHANGED <<build, objects, io_handlers, exit, reapers, regs, sigPending, child,
                   nUid, nSrc, nReap, nRem, owner, dropDue, condemned, rinv,
                   lateReg, orphaned, win>>

\* top of the loop: wait on the poller, which returns a batch
Poll ==
    /\ stack # <<>> /\ Top.kind = "run" /\ Top.events = <<>>
    /\ ~ShouldBreak
    /\ \E batch \in Batches :
         /\ stack' = <<RunFrame(batch, TRUE)>> \o Below
         /\ sigPending' = (sigPending /\ \A k \in DOMAIN batch : batch[k].src # 0)
    /\ lastTop' = [act |-> "poll", exit |-> exit, empty |-> StashIsEmpty(io_handlers)]
    /\ UNCHANGED <<build, objects, io_handlers, exit, reapers, regs, child, nUid, nSrc,
                   nReap, nRem, owner, dropDue, condemned, rinv, lateReg,
                   afterExit, orphaned, win>>

WriteAppliesUnlessExit(h, ev, obj) ==
    h.wr # "none" /\ ev.writable /\ obj.ty = h.ty /\ ~exit

ReadAppliesAnyType(h, ev, obj) == h.rd # "none" /\ ev.readable

\* Callback::make_call: the call happens when the down-cast succeeds
ReadApplies(h, ev, obj) == h.rd # "none" /\ ev.readable /\ obj.ty = h.ty
WriteApplies(h, ev, obj) == h.wr # "none" /\ ev.writable /\ obj.ty = h.ty

TakeHandlerNot(hs, token) == hs

\* Core::run line 173: get_mut(token).and_then(Option::take)
TakeHandler(hs, token) == StashSet(hs, token, NoHandler)

\* Core::call_on_object line 218: get_mut(object_id).and_then(Option::take)
TakeObject(objs, i) == StashSet(objs, i, NoObj)

\* Core::call_on_object, lines 218 and 220-223
Takeable(objs, i) == Occupied(objs, i) /\ StashVal(objs, i).uid # 0
ObjAlive(objs, i) == Occupied(objs, i)
RestoreObject(objs, i, box) ==
    IF ObjAlive(objs, i) THEN StashSet(objs, i, box) ELSE objs

RestoreHandlerAlways(hs, token, h, alive) ==
    IF Occupied(hs, token) THEN StashSet(hs, token, h) ELSE hs

\* Core::run, lines 189-194
RestoreHandler(hs, token, h, alive) ==
    LET hs1 == IF ~alive THEN StashTake(hs, token, NoHandler) ELSE hs
    IN  IF Occupied(hs1, token) THEN StashSet(hs1, token, h) ELSE hs1

NextEventLast(evs) == evs[Len(evs)]

\* lib.rs line 171: `for event in &mio_events` yields the events in the
\* order the poller stored them
NextEvent(evs) == Head(evs)

\* One event of the batch: lines 172-188 up to the first user callback, and
\* through to line 194 when no callback is to be called.
Dispatch ==
    /\ stack # <<>> /\ Top.kind = "run" /\ Top.events # <<>>
    /\ LET ev == NextEvent(Top.events)
           token == ev.token
           base == <<[Top EXCEPT !.events = Tail(@)]>> \o Below
           present == Occupied(io_handlers, token)
                        /\ StashVal(io_handlers, token).hid # 0
       IN  IF ~present
           THEN /\ stack' = base
                /\ UNCHANGED <<objects, io_handlers, sigPending, orphaned>>
           ELSE
           LET h == [StashVal(io_handlers, token) EXCEPT !.fired = TRUE]
               hs1 == TakeHandler(io_handlers, token)
               id == h.object_id
           IN  IF ~Takeable(objects, id)
               THEN /\ io_handlers' = RestoreHandler(hs1, token, h, FALSE)
                    /\ stack' = base
                    /\ orphaned' = IF h.orph = "orphan" THEN orphaned \cup {h.hid}
                                   ELSE orphaned
                    /\ UNCHANGED <<objects, sigPending>>
               ELSE
               LET obj == StashVal(objects, id)
                   objs1 == TakeObject(objects, id)
               IN  IF ReadApplies(h, ev, obj)
                   THEN /\ objects' = objs1
                        /\ io_handlers' = hs1
                        /\ IF h.rd = "reap_all"
                           THEN /\ stack' = <<ReapFrame(Len(reapers), Rids(reapers)),
                                              IoFrame(token, h, obj, ev, "read")>>
                                             \o base
                                /\ sigPending' = FALSE
                                /\ UNCHANGED orphaned
                           ELSE IF h.rd = "core_reap_all"
                           THEN /\ stack' = <<LooperCoreReapFrame(Rids(reapers)),
                                              IoFrame(token, h, obj, ev, "read")>>
                                             \o base
                                /\ sigPending' = FALSE
                                /\ UNCHANGED orphaned
                           ELSE IF h.rd = "reap"
                           THEN /\ stack' = <<WinReapFrame(0, <<>>),
                                              IoFrame(token, h, obj, ev, "read")>>
                                             \o base
                                /\ UNCHANGED <<sigPending, orphaned>>
                           ELSE /\ stack' = <<IoFrame(token, h, obj, ev, "read")>>
                                             \o base
                                /\ UNCHANGED <<sigPending, orphaned>>
                   ELSE IF WriteApplies(h, ev, obj)
                   THEN /\ objects' = objs1
                        /\ io_handlers' = hs1
                        /\ stack' = <<IoFrame(token, h, obj, ev, "write")>> \o base
                        /\ UNCHANGED <<sigPending, orphaned>>
                   ELSE /\ objects' = RestoreObject(objs1, id, obj)
                        /\ io_handlers' = RestoreHandler(hs1, token, h, ObjAlive(objs1, id))
                        /\ stack' = base
                        /\ UNCHANGED <<sigPending, orphaned>>
    /\ UNCHANGED <<build, exit, reapers, regs, child, nUid, nSrc, nReap, nRem, owner,
                   dropDue, condemned, rinv, lateReg, afterExit, lastTop, win>>

\* A callback of dispatch frame f returns, base being the stack under f:
\* the write callback is called next (lines 183-187), or the dispatch
\* finishes (lines 220-223, 189-194).
ReturnFrom(f, base) ==
    IF f.stage = "read" /\ WriteApplies(f.h, f.ev, f.obj)
    THEN /\ stack' = <<[f EXCEPT !.stage = "write", !.exitCalled = FALSE,
                                  !.regd = {},
                                  !.readDid = [removed |-> f.selfRemoved,
                                               exit |-> f.exitCalled]]>>
                        \o base
         /\ UNCHANGED <<objects, io_handlers, dropDue, condemned>>
    ELSE /\ objects' = RestoreObject(objects, f.h.object_id, f.obj)
         /\ io_handlers' = RestoreHandler(io_handlers, f.token, f.h,
                                          ObjAlive(objects, f.h.object_id))
         /\ stack' = base
         /\ dropDue' = IF f.selfRemoved THEN dropDue \cup {f.obj.uid} ELSE dropDue
         /\ condemned' = IF f.selfRemoved THEN condemned \cup {f.h.hid}
                         ELSE condemned

CbReturn ==
    /\ stack # <<>> /\ Top.kind = "io"
    /\ ReturnFrom(Top, Below)
    /\ UNCHANGED <<build, exit, reapers, regs, sigPending, child, nUid, nSrc, nReap,
                   nRem, owner, rinv, lateReg, afterExit, lastTop, orphaned, win>>

\* ------------------------------------------------ process_unix::reap_all
AfterExitedKeep(rest, r) == Append(rest, r)

AfterExitedRetry(rest, r) == Append(rest, r)

\* The Ok(true) arm of lines 58-63: the popped reaper is not pushed back.
AfterExited(rest, r) == rest

\* One turn of the loop of lines 57-66, up to the reaper's callback.
ReapStep ==
    /\ stack # <<>> /\ Top.kind = "reap" /\ Top.left > 0
    /\ LET r == Head(reapers)
           rest == Tail(reapers)
           res == Reap(r.pid)
           next == <<[Top EXCEPT !.left = @ - 1,
                                 !.probed = Append(@, Probe(r, res))]>> \o Below
       IN  CASE res = "alive" ->
                  /\ reapers' = Append(rest, r)
                  /\ stack' = next
                  /\ UNCHANGED <<objects, child, rinv>>
             [] res = "exited" ->
                  /\ reapers' = AfterExited(rest, r)
                  /\ child' = [child EXCEPT ![r.pid] = "reaped"]
                  /\ IF Takeable(objects, r.object_id)
                        /\ StashVal(objects, r.object_id).ty = r.ty
                     THEN /\ objects' = TakeObject(objects, r.object_id)
                          /\ stack' = <<RcbFrame(r, StashVal(objects, r.object_id))>>
                                       \o next
                          /\ rinv' = [rinv EXCEPT ![r.pid] = @ + 1]
                     ELSE /\ stack' = next
                          /\ UNCHANGED <<objects, rinv>>
             [] OTHER ->
                  /\ reapers' = rest
                  /\ stack' = next
                  /\ UNCHANGED <<objects, child, rinv>>
    /\ UNCHANGED <<build, io_handlers, exit, regs, sigPending, nUid, nSrc, nReap, nRem,
                   owner, dropDue, condemned, lateReg, afterExit, lastTop, orphaned, win>>

\* The reaper's callback returns: call_on_object lines 220-223.
RcbReturn ==
    /\ stack # <<>> /\ Top.kind = "rcb"
    /\ objects' = RestoreObject(objects, Top.r.object_id, Top.obj)
    /\ stack' = Below
    /\ dropDue' = IF Top.selfRemoved THEN dropDue \cup {Top.obj.uid} ELSE dropDue
    /\ UNCHANGED <<build, io_handlers, exit, reapers, regs, sigPending, child, nUid,
                   nSrc, nReap, nRem, owner, condemned, rinv, lateReg, afterExit,
                   lastTop, orphaned, win>>

\* reap_all returns to the dispatch that called it.
ReapDone ==
    /\ stack # <<>> /\ Top.kind = "reap" /\ Top.left = 0
    /\ ReturnFrom(Head(Below), Tail(Below))
    /\ UNCHANGED <<build, exit, reapers, regs, sigPending, child, nUid, nSrc, nReap,
                   nRem, owner, rinv, lateReg, afterExit, lastTop, orphaned, win>>

\* ------------------------------------------------------- specification
\* process_unix::new_core: the SIGCHLD stream is registered as a reader
\* bound to next_id(), then added.
InitCore ==
    /\ io_handlers = InternalRegister(EmptyStash, 0, 0, "r", "Signals", "reap_all", FALSE)
    /\ objects = StashPut(EmptyStash, [uid |-> 1, ty |-> "Signals"])
    /\ regs = {[src |-> 0, token |-> 0, kind |-> "r"]}
    /\ exit = FALSE
    /\ reapers = <<>>
    /\ sigPending = FALSE
    /\ child = [p \in Pids |-> "running"]
    /\ stack = <<>>
    /\ nUid = 0 /\ nSrc = 0 /\ nReap = 0 /\ nRem = 0
    /\ owner = [i \in Ids |-> IF i = 0 THEN 1 ELSE 0]
    /\ dropDue = {}
    /\ condemned = {}
    /\ rinv = [p \in Pids |-> 0]
    /\ lateReg = {}
    /\ afterExit = 0
    /\ orphaned = {}
    /\ lastTop = [act |-> "none", exit |-> FALSE, empty |-> FALSE]
    /\ win = WinIdle

Init == InitCore /\ build = BuildIdle

Next ==
    \/ \E ty \in UserTypes : Add(ty, MaxOps)
    \/ \E i \in Ids : Remove(i, MaxOps)
    \/ \E kind \in {"r", "w", "rw"}, i \in Ids, ty \in UserTypes :
          Register(kind, i, ty, MaxOps)
    \/ \E i \in Ids, ty \in UserTypes : RegisterReaper(i, ty, MaxOps)
    \/ Exit
    \/ \E p \in Pids : ChildExit(p)
    \/ RunCall(MaxDepth)
    \/ RunReturn
    \/ Poll
    \/ Dispatch
    \/ CbReturn
    \/ ReapStep
    \/ RcbReturn
    \/ ReapDone

Spec == Init /\ [][Next]_vars

\* ----------------------------------------------------------- process_win
\* The Windows build of the same Core.  sigPending is the readiness edge of
\* the channel's receiving end, raised by a send; child is "running" until
\* the process handle is signalled, "exited" afterwards.
MaxWinOps == 3     \* calls of add and register_reaper in SpecWin
MaxWinReapers == 3 \* calls of register_reaper in SpecWin

\* a wait registered with the thread pool for the sentinel of reaper rid
WinWait(rid, p) == [rid |-> rid, pid |-> p]

\* Sentinel::send, lines 41-43
SentinelSend(chan, id) == Append(chan, id)

\* process_win::register_reaper, lines 92-133: the probe, then either the
\* send of the id or the registration of the wait; the reaper is built but
\* not yet in the list.  registered is what RegisterWaitForSingleObject
\* answers (rc # 0); when it fails the function returns at line 124.
RegisterReaperWin(p, i, ty, n, registered) ==
    /\ InUser
    /\ OpsDone < n
    /\ nReap < MaxWinReapers
    /\ i \in KnownIds
    /\ LET rid == nReap + 1
       IN  IF child[p] # "running"
           THEN /\ win' = [win EXCEPT !.chan = SentinelSend(@, p),
                                       !.by = Append(@, rid)]
                /\ sigPending' = TRUE
                /\ stack' = <<WinRegFrame([rid |-> rid, pid |-> p, object_id |-> i,
                                           ty |-> ty, wait |-> FALSE])>> \o stack
                /\ lateReg' = lateReg \cup {p}
           ELSE IF registered
           THEN /\ win' = [win EXCEPT !.waits = @ \cup {WinWait(rid, p)}]
                /\ stack' = <<WinRegFrame([rid |-> rid, pid |-> p, object_id |-> i,
                                           ty |-> ty, wait |-> TRUE])>> \o stack
                /\ UNCHANGED <<sigPending, lateReg>>
           ELSE UNCHANGED <<win, sigPending, stack, lateReg>>
    /\ nReap' = nReap + 1
    /\ UNCHANGED <<build, objects, io_handlers, exit, reapers, regs, child, nUid,
                   nSrc, nRem, owner, dropDue, condemned, rinv, afterExit,
                   lastTop, orphaned>>

WinEnqueueNot(rs, r) == rs

\* line 134: reapers.push_back(reaper)
WinEnqueue(rs, r) == Append(rs, r)

\* process_win::register_reaper line 134 and the return
RegisterReaperWinDone ==
    /\ stack # <<>> /\ Top.kind = "wreg"
    /\ reapers' = WinEnqueue(reapers, Top.r)
    /\ win' = [win EXCEPT !.pushed = @ \cup {reapers'[k].rid : k \in DOMAIN reapers'}]
    /\ stack' = Below
    /\ UNCHANGED <<build, objects, io_handlers, exit, regs, sigPending, child,
                   nUid, nSrc, nReap, nRem, owner, dropDue, condemned, rinv,
                   lateReg, afterExit, lastTop, orphaned>>

\* The OS: a running child terminates and its process handle is signalled.
ChildExitWin(p) ==
    /\ child[p] = "running"
    /\ child' = [child EXCEPT ![p] = "exited"]
    /\ UNCHANGED <<build, objects, io_handlers, exit, reapers, regs, sigPending, stack,
                   nUid, nSrc, nReap, nRem, owner, dropDue, condemned, rinv,
                   lateReg, afterExit, lastTop, orphaned, win>>

WaitCallbackReaps(p) ==
    /\ child[p] = "exited"
    /\ \E w \in win.waits :
          /\ w.pid = p
          /\ win' = [win EXCEPT !.waits = @ \ {w}, !.fired = @ + 1]
    /\ reapers' = SelectSeq(reapers, LAMBDA r : r.pid # p)
    /\ rinv' = [rinv EXCEPT ![p] = @ + 1]
    /\ UNCHANGED <<build, objects, io_handlers, exit, regs, sigPending, child, stack,
                   nUid, nSrc, nReap, nRem, owner, dropDue, condemned, lateReg,
                   afterExit, lastTop, orphaned>>

\* The thread-pool thread: `callback`, lines 46-50, run once for a wait
\* whose handle is signalled (WT_EXECUTEONLYONCE).
WaitCallback(p) ==
    /\ child[p] = "exited"
    /\ \E w \in win.waits :
          /\ w.pid = p
          /\ win' = [win EXCEPT !.chan = SentinelSend(@, p),
                                !.by = Append(@, w.rid),
                                !.waits = @ \ {w}, !.fired = @ + 1]
    /\ sigPending' = TRUE
    /\ UNCHANGED <<build, objects, io_handlers, exit, reapers, regs, child, stack,
                   nUid, nSrc, nReap, nRem, owner, dropDue, condemned, rinv,
                   lateReg, afterExit, lastTop, orphaned>>

\* process_win::reap line 75: try_recv yields an id
WinRecv ==
    /\ stack # <<>> /\ Top.kind = "wreap" /\ Top.left = 0
    /\ win.chan # <<>>
    /\ win' = [win EXCEPT !.chan = Tail(@), !.by = Tail(@)]
    /\ stack' = <<WinReapFrame(Head(win.chan), reapers)>> \o Below
    /\ UNCHANGED <<build, objects, io_handlers, exit, reapers, regs, sigPending, child,
                   nUid, nSrc, nReap, nRem, owner, dropDue, condemned, rinv,
                   lateReg, afterExit, lastTop, orphaned>>

WinMatchesAny(r, id) == TRUE

\* process_win::reap line 78: r.sentinel.id == id
WinMatches(r, id) == r.pid = id

\* One turn of the loop of lines 76-83, up to the reaper's callback.  The
\* matching reaper is not pushed back; dropping it unregisters its wait
\* (lines 59-68).
WinReapStep ==
    /\ stack # <<>> /\ Top.kind = "wreap" /\ Top.left > 0
    /\ LET r == Head(reapers)
           rest == Tail(reapers)
           next == <<[Top EXCEPT !.left = @ - 1]>> \o Below
           called == <<[Top EXCEPT !.left = @ - 1, !.disp = Append(@, r.rid)]>>
                       \o Below
       IN  IF WinMatches(r, Top.id)
           THEN /\ reapers' = rest
                /\ win' = [win EXCEPT !.waits = @ \ {WinWait(r.rid, r.pid)}]
                /\ IF Takeable(objects, r.object_id)
                      /\ StashVal(objects, r.object_id).ty = r.ty
                   THEN /\ objects' = TakeObject(objects, r.object_id)
                        /\ stack' = <<RcbFrame(r, StashVal(objects, r.object_id))>>
                                     \o called
                        /\ rinv' = [rinv EXCEPT ![r.pid] = @ + 1]
                   ELSE /\ stack' = called
                        /\ UNCHANGED <<objects, rinv>>
           ELSE /\ reapers' = Append(rest, r)
                /\ stack' = next
                /\ UNCHANGED <<objects, rinv, win>>
    /\ UNCHANGED <<build, io_handlers, exit, regs, sigPending, child, nUid, nSrc, nReap,
                   nRem, owner, dropDue, condemned, lateReg, afterExit, lastTop,
                   orphaned>>

\* line 75: try_recv finds the channel empty and reap returns to the
\* dispatch that called it.
WinReapDone ==
    /\ stack # <<>> /\ Top.kind = "wreap" /\ Top.left = 0
    /\ win.chan = <<>>
    /\ ReturnFrom(Head(Below), Tail(Below))
    /\ UNCHANGED <<build, exit, reapers, regs, sigPending, child, nUid, nSrc, nReap,
                   nRem, owner, rinv, lateReg, afterExit, lastTop, orphaned, win>>

\* process_win::new_core: the channel's receiving end is registered as a
\* reader bound to next_id(), then added.
InitWin ==
    /\ io_handlers = InternalRegister(EmptyStash, 0, 0, "r", "Receiver", "reap", FALSE)
    /\ objects = StashPut(EmptyStash, [uid |-> 1, ty |-> "Receiver"])
    /\ regs = {[src |-> 0, token |-> 0, kind |-> "r"]}
    /\ exit = FALSE
    /\ reapers = <<>>
    /\ sigPending = FALSE
    /\ child = [p \in Pids |-> "running"]
    /\ stack = <<>>
    /\ nUid = 0 /\ nSrc = 0 /\ nReap = 0 /\ nRem = 0
    /\ owner = [i \in Ids |-> IF i = 0 THEN 1 ELSE 0]
    /\ dropDue = {}
    /\ condemned = {}
    /\ rinv = [p \in Pids |-> 0]
    /\ lateReg = {}
    /\ afterExit = 0
    /\ orphaned = {}
    /\ lastTop = [act |-> "none", exit |-> FALSE, empty |-> FALSE]
    /\ win = WinIdle
    /\ build = BuildIdle

NextWin ==
    \/ \E ty \in UserTypes : Add(ty, MaxWinOps)
    \/ \E p \in Pids, i \in Ids, ty \in UserTypes, registered \in BOOLEAN :
          RegisterReaperWin(p, i, ty, MaxWinOps, registered)
    \/ RegisterReaperWinDone
    \/ \E p \in Pids : ChildExitWin(p)
    \/ \E p \in Pids : WaitCallback(p)
    \/ RunCall(1)
    \/ Poll
    \/ Dispatch
    \/ WinRecv
    \/ WinReapStep
    \/ RcbReturn
    \/ WinReapDone

SpecWin == InitWin /\ [][NextWin]_vars

\* looper_core keeps the reaper list inside the ProcessHandler, which
\* init_hook stores at object id 0 and binds reap_all to, just as new_core
\* does with the signal stream; its dispatcher is the same.
\* looper_core register_reaper line 28: get_mut(ObjectId::from(0)) finds the
\* ProcessHandler when it is in its slot.
CoreProcessHandler == Get(0).uid # 0 /\ Get(0).ty = "Signals"

\* line 28: unwrap() of what get_mut returned
CoreRegisterReaperPanics == ~CoreProcessHandler

\* ------------------------------------------------------------ the scans
\* The POSIX reactor with register_reaper called for any child, also one a
\* reaper is registered for already: run entered once, no remove, no exit.
MaxScanOps == 4      \* calls of add and register_reaper in the scan models
MaxScanReapers == 3  \* calls of register_reaper in the scan models

\* process_unix::register_reaper for child p
RegisterReaperFor(p, i, ty, n) ==
    /\ InUser
    /\ OpsDone < n
    /\ nReap < MaxScanReapers
    /\ i \in KnownIds
    /\ reapers' = Append(reapers, [rid |-> nReap + 1, pid |-> p,
                                   object_id |-> i, ty |-> ty])
    /\ nReap' = nReap + 1
    /\ lateReg' = IF child[p] # "running" THEN lateReg \cup {p} ELSE lateReg
    /\ UNCHANGED <<build, objects, io_handlers, exit, regs, sigPending, child,
                   stack, nUid, nSrc, nRem, owner, dropDue, condemned, rinv,
                   afterExit, lastTop, orphaned, win>>

NextScan ==
    \/ \E ty \in UserTypes : Add(ty, MaxScanOps)
    \/ \E p \in Pids, i \in Ids, ty \in UserTypes :
          RegisterReaperFor(p, i, ty, MaxScanOps)
    \/ \E p \in Pids : ChildExit(p)
    \/ RunCall(1)
    \/ Poll
    \/ Dispatch
    \/ ReapStep
    \/ RcbReturn
    \/ ReapDone

SpecScan == Init /\ [][NextScan]_vars

\* The POSIX reactor with values of two concrete types and with remove, so
\* that a reaper's object can be vacant, taken, or of another type than the
\* reaper's callback when the scan reaches it.
MaxAbsentOps == 4    \* calls of add, remove and register_reaper in SpecAbsent
ReaperTypes == {"A", "B"}

NextAbsent ==
    \/ \E ty \in ReaperTypes : Add(ty, MaxAbsentOps)
    \/ \E i \in Ids : Remove(i, MaxAbsentOps)
    \/ \E i \in Ids, ty \in ReaperTypes : RegisterReaper(i, ty, MaxAbsentOps)
    \/ \E p \in Pids : ChildExit(p)
    \/ RunCall(1)
    \/ Poll
    \/ Dispatch
    \/ ReapStep
    \/ RcbReturn
    \/ ReapDone

SpecAbsent == Init /\ [][NextAbsent]_vars

\* ----------------------------------------------- looper_core process_unix
\* looper_core's Core is the same dispatcher; its reaper list is a Vec
\* inside the ProcessHandler, the object init_hook stores at id 0 and binds
\* reap_all to.  reapers is that Vec; the object at id 0 keeps the type name
\* of the signal stream it holds.

\* Vec::swap_remove(i), i counted from 0
SwapRemove(v, i) ==
    IF i + 1 = Len(v) THEN SubSeq(v, 1, Len(v) - 1)
    ELSE [SubSeq(v, 1, Len(v) - 1) EXCEPT ![i + 1] = v[Len(v)]]

\* looper_core register_reaper, lines 23-34
LooperCoreRegisterReaper(p, i, ty, n) ==
    /\ InUser
    /\ OpsDone < n
    /\ nReap < MaxScanReapers
    /\ i \in KnownIds
    /\ IF CoreRegisterReaperPanics
       THEN /\ stack' = <<PanicFrame>> \o stack
            /\ UNCHANGED <<reapers, nReap, lateReg>>
       ELSE /\ reapers' = Append(reapers, [rid |-> nReap + 1, pid |-> p,
                                           object_id |-> i, ty |-> ty])
            /\ nReap' = nReap + 1
            /\ lateReg' = IF child[p] # "running" THEN lateReg \cup {p}
                          ELSE lateReg
            /\ UNCHANGED stack
    /\ UNCHANGED <<build, objects, io_handlers, exit, regs, sigPending, child,
                   nUid, nSrc, nRem, owner, dropDue, condemned, rinv,
                   afterExit, lastTop, orphaned, win>>

\* One turn of the loop of looper_core reap_all, lines 51-65, up to the
\* reaper's callback; after a callback the turn ends in LooperCoreRcbReturn.
LooperCoreReapStep ==
    /\ stack # <<>> /\ Top.kind = "creap" /\ Top.i < Len(reapers)
    /\ LET r == reapers[Top.i + 1]
           res == Reap(r.pid)
           probed == [Top EXCEPT !.probed = Append(@, Probe(r, res))]
       IN  CASE res = "alive" ->
                  /\ stack' = <<[probed EXCEPT !.i = @ + 1]>> \o Below
                  /\ UNCHANGED <<reapers, objects, child, rinv>>
             [] res = "exited" ->
                  /\ child' = [child EXCEPT ![r.pid] = "reaped"]
                  /\ IF Takeable(objects, r.object_id)
                        /\ StashVal(objects, r.object_id).ty = r.ty
                     THEN /\ objects' = TakeObject(objects, r.object_id)
                          /\ stack' = <<RcbFrame(r, StashVal(objects, r.object_id)),
                                        probed>> \o Below
                          /\ rinv' = [rinv EXCEPT ![r.pid] = @ + 1]
                          /\ UNCHANGED reapers
                     ELSE /\ reapers' = SwapRemove(reapers, Top.i)
                          /\ stack' = <<probed>> \o Below
                          /\ UNCHANGED <<objects, rinv>>
             [] OTHER ->
                  /\ reapers' = SwapRemove(reapers, Top.i)
                  /\ stack' = <<probed>> \o Below
                  /\ UNCHANGED <<objects, child, rinv>>
    /\ UNCHANGED <<build, io_handlers, exit, regs, sigPending, nUid, nSrc, nReap,
                   nRem, owner, dropDue, condemned, lateReg, afterExit, lastTop,
                   orphaned, win>>

\* The reaper's callback returns into looper_core reap_all: call_on_object
\* restores the object, then line 58 removes the reaper.
LooperCoreRcbReturn ==
    /\ stack # <<>> /\ Top.kind = "rcb"
    /\ Below # <<>> /\ Head(Below).kind = "creap"
    /\ objects' = RestoreObject(objects, Top.r.object_id, Top.obj)
    /\ reapers' = SwapRemove(reapers, Head(Below).i)
    /\ stack' = Below
    /\ dropDue' = IF Top.selfRemoved THEN dropDue \cup {Top.obj.uid} ELSE dropDue
    /\ UNCHANGED <<build, io_handlers, exit, regs, sigPending, child, nUid,
                   nSrc, nReap, nRem, owner, condemned, rinv, lateReg, afterExit,
                   lastTop, orphaned, win>>

\* line 51: the index has reached the end of the list; reap_all returns to
\* the dispatch that called it.
LooperCoreReapDone ==
    /\ stack # <<>> /\ Top.kind = "creap" /\ Top.i >= Len(reapers)
    /\ ReturnFrom(Head(Below), Tail(Below))
    /\ UNCHANGED <<build, exit, reapers, regs, sigPending, child, nUid, nSrc,
                   nReap, nRem, owner, rinv, lateReg, afterExit, lastTop,
                   orphaned, win>>

\* looper_core init_hook, lines 14-21
InitLooperCore ==
    /\ io_handlers = InternalRegister(EmptyStash, 0, 0, "r", "Signals",
                                      "core_reap_all", FALSE)
    /\ objects = StashPut(EmptyStash, [uid |-> 1, ty |-> "Signals"])
    /\ regs = {[src |-> 0, token |-> 0, kind |-> "r"]}
    /\ exit = FALSE
    /\ reapers = <<>>
    /\ sigPending = FALSE
    /\ child = [p \in Pids |-> "running"]
    /\ stack = <<>>
    /\ nUid = 0 /\ nSrc = 0 /\ nReap = 0 /\ nRem = 0
    /\ owner = [i \in Ids |-> IF i = 0 THEN 1 ELSE 0]
    /\ dropDue = {}
    /\ condemned = {}
    /\ rinv = [p \in Pids |-> 0]
    /\ lateReg = {}
    /\ afterExit = 0
    /\ orphaned = {}
    /\ lastTop = [act |-> "none", exit |-> FALSE, empty |-> FALSE]
    /\ win = WinIdle
    /\ build = BuildIdle

NextLooperCore ==
    \/ \E ty \in UserTypes : Add(ty, MaxScanOps)
    \/ \E p \in Pids, i \in Ids, ty \in UserTypes :
          LooperCoreRegisterReaper(p, i, ty, MaxScanOps)
    \/ \E p \in Pids : ChildExit(p)
    \/ RunCall(1)
    \/ Poll
    \/ Dispatch
    \/ LooperCoreReapStep
    \/ LooperCoreRcbReturn
    \/ LooperCoreReapDone

SpecLooperCore == InitLooperCore /\ [][NextLooperCore]_vars

\* ---------------------------------------------------------- construction
\* Which of the OS calls made while constructing fail: Signals::new,
\* Poll::new, the poller's register for the signal stream and for a source
\* of the caller, the launch of a process, fcntl on each of its pipes.
Failures == [signals : BOOLEAN, poll : BOOLEAN, regSignals : BOOLEAN,
             register : BOOLEAN, launch : BOOLEAN, stdin : BOOLEAN,
             stdout : BOOLEAN, stderr : BOOLEAN]

\* process_unix::new_core: lines 17 and 21 unwrap what Signals::new and
\* Poll::new return, line 27 reaches the unwrap of internal_register; the
\* function returns a Core, not a Result.
NewCoreOutcome(fail) ==
    IF fail.signals \/ fail.poll \/ fail.regSignals THEN "panic" ELSE "ok"

\* Core::spawn, lines 206-215, and new_child, lines 146-156: cmd.spawn()?
\* and make_nonblocking(..)? return the error to the caller.
SpawnOutcome(fail) ==
    IF fail.launch \/ fail.stdin \/ fail.stdout \/ fail.stderr THEN "err"
    ELSE "ok"

\* Core::internal_register line 237: poll.register(..).unwrap(); the
\* register_* methods return ().
RegisterOutcome(fail) == IF fail.register THEN "panic" ELSE "ok"

\* Core::new is called
BuildNewCore ==
    /\ build.core = "none"
    /\ build' = [build EXCEPT !.core = NewCoreOutcome(build.fail)]
    /\ UNCHANGED <<objects, io_handlers, exit, reapers, regs, sigPending, child,
                   stack, nUid, nSrc, nReap, nRem, owner, dropDue, condemned,
                   rinv, lateReg, afterExit, orphaned, lastTop, win>>

\* Core::spawn is called on the Core that Core::new returned
BuildSpawn ==
    /\ build.core = "ok" /\ build.spawn = "none"
    /\ build' = [build EXCEPT !.spawn = SpawnOutcome(build.fail)]
    /\ UNCHANGED <<objects, io_handlers, exit, reapers, regs, sigPending, child,
                   stack, nUid, nSrc, nReap, nRem, owner, dropDue, condemned,
                   rinv, lateReg, afterExit, orphaned, lastTop, win>>

\* register_reader, register_writer or register_reader_writer is called on
\* the Core that Core::new returned
BuildRegister ==
    /\ build.core = "ok" /\ build.reg = "none"
    /\ build' = [build EXCEPT !.reg = RegisterOutcome(build.fail)]
    /\ UNCHANGED <<objects, io_handlers, exit, reapers, regs, sigPending, child,
                   stack, nUid, nSrc, nReap, nRem, owner, dropDue, condemned,
                   rinv, lateReg, afterExit, orphaned, lastTop, win>>

\* The reactor's variables show the Core that new_core returns when it
\* succeeds; build tells which calls have been made and what they gave.
InitBuild ==
    /\ InitCore
    /\ build \in [fail : Failures, core : {"none"}, spawn : {"none"},
                  reg : {"none"}]

NextBuild == BuildNewCore \/ BuildSpawn \/ BuildRegister

SpecBuild == InitBuild /\ [][NextBuild]_vars

\* The reactor with the SIGCHLD stream as its only source, run entered once
\* and never left (no exit, no remove).  A step of the loop that can be taken
\* is taken: poll returns when a signal is pending, a dispatch proceeds, a
\* callback returns.  Nothing obliges the caller to act or a child to exit.
MaxLiveOps == 3    \* calls of add and register_reaper in SpecLive

Turn == Poll \/ Dispatch \/ ReapStep \/ RcbReturn \/ ReapDone

NextLive ==
    \/ \E ty \in UserTypes : Add(ty, MaxLiveOps)
    \/ \E i \in Ids, ty \in UserTypes : RegisterReaper(i, ty, MaxLiveOps)
    \/ \E p \in Pids : ChildExit(p)
    \/ RunCall(1)
    \/ Poll
    \/ Dispatch
    \/ ReapStep
    \/ RcbReturn
    \/ ReapDone

SpecLive == Init /\ [][NextLive]_vars /\ WF_vars(Turn)

\* The reactor without reapers, run entered from the caller's code and
\* exit() never called.  The steps the code takes by itself are taken: a
\* pending SIGCHLD makes poll return it, a dispatch proceeds, a callback
\* returns, run returns when its check says so.  Whether one of the caller's
\* sources becomes ready is up to the environment.
MaxDrainOps == 3   \* calls of add, remove and register_* in SpecDrain

PollSignal == sigPending /\ Poll /\ ~sigPending'

Progress == Dispatch \/ CbReturn \/ ReapDone \/ RunReturn

NextDrain ==
    \/ \E ty \in UserTypes : Add(ty, MaxDrainOps)
    \/ \E i \in Ids : Remove(i, MaxDrainOps)
    \/ \E kind \in {"r", "w", "rw"}, i \in Ids, ty \in UserTypes :
          Register(kind, i, ty, MaxDrainOps)
    \/ \E p \in Pids : ChildExit(p)
    \/ RunCall(1)
    \/ RunReturn
    \/ Poll
    \/ Dispatch
    \/ CbReturn
    \/ ReapDone

SpecDrain ==
    Init /\ [][NextDrain]_vars /\ WF_vars(Progress) /\ SF_vars(PollSignal)

\* ------------------------------------------------------------ observers
Entries(st) == {st.data[k].v : k \in {j \in DOMAIN st.data : st.data[j].full}}
StoreUids == {o.uid : o \in Entries(objects)} \ {0}
TableHandlers == {h \in Entries(io_handlers) : h.hid # 0}
FlightFrames == {stack[k] : k \in {j \in DOMAIN stack : stack[j].kind = "io"}}
FlightHandlers == {f.h : f \in FlightFrames}
FlightUids ==
    {stack[k].obj.uid : k \in {j \in DOMAIN stack : stack[j].kind \in {"io", "rcb"}}}
AllHandlers == TableHandlers \cup FlightHandlers

\* the source a handler was registered with (internal_register line 237
\* gives the handler's token to the poller together with that source)
SourceOf(h) == h.hid - 1

\* ---------------------------------------------------------------- claims

\* C1: a value whose own callback called remove on its id, and whose
\* dispatch has finished, was dropped by the dispatcher: it is not in the
\* object store (call_on_object found the slot gone and did not put it back).
C1_SelfRemovedIsDropped == dropDue \cap StoreUids = {}

\* C2: for every id, get returns the value the caller stored there last and
\* has not removed, except that it returns absent while a callback bound to
\* that value is running.
C2_GetReturnsStored ==
    \A i \in Ids :
        owner[i] # 0 =>
            IF owner[i] \in FlightUids THEN Get(i).uid = 0
            ELSE Get(i).uid = owner[i]

\* C3: a handler whose callback removed the handler's target object during
\* a dispatch that has finished is gone: it is neither in the handler table
\* nor being dispatched, so no later event for its token calls it.
C3_RemovedHandlerIsGone ==
    \A h \in AllHandlers : h.hid \notin condemned

\* C4 as claimed: a handler whose object was removed before its first event
\* does not survive that event, whatever happened in between: no handler
\* that has had an event is one whose object had been removed before it.
C4_OrphanNeverDispatched ==
    \A h \in AllHandlers : h.fired => h.orph = "no"

\* C4 as amended: a handler whose object was removed before its first event,
\* with no add returning that id since the remove, does not survive the
\* event: it is neither called nor left in the table.
C4_VacantOrphanDropped ==
    \A h \in AllHandlers : h.fired => h.orph # "orphan"

C4_Witness == orphaned # {}

\* the reaper of child p is in the list, bound to an id at which the caller
\* has a value of the callback's type stored (uid 1 is the SIGCHLD stream)
Listed(p) ==
    \E k \in DOMAIN reapers :
        reapers[k].pid = p /\ owner[reapers[k].object_id] > 1

\* C5: whenever run is turning the loop and a child with a listed reaper has
\* terminated, the reaper's callback is eventually invoked, exactly once.
C5_ReaperEventuallyOnce ==
    \A p \in Pids :
        [](Depth >= 1 /\ Listed(p) /\ child[p] = "zombie" => <>(rinv[p] = 1))

\* C7: whenever run is turning the loop and a reaper is listed that was
\* registered after its child had exited, its callback is eventually invoked.
C7_LateReaperEventually ==
    \A p \in Pids :
        [](Depth >= 1 /\ Listed(p) /\ p \in lateReg => <>(rinv[p] >= 1))

RECURSIVE SumEvents(_)
SumEvents(st) ==
    IF st = <<>> THEN 0
    ELSE (IF Head(st).kind = "run" THEN Len(Head(st).events) ELSE 0)
         + SumEvents(Tail(st))
PendingEvents == SumEvents(stack)

\* C8 as claimed: over a whole execution at most one event batch completes
\* after exit() was called.
C8_OneBatchAfterExit == afterExit <= 1

\* C8 as amended: once exit() has been called the flag stays set and the
\* poller is never waited on again: no run gains events, so each active run
\* finishes only the batch it has in flight and returns at its next
\* top-of-loop check.
C8_NoPollAfterExit ==
    [][exit => (exit' /\ PendingEvents' <= PendingEvents)]_vars

\* exit() was called and a callback of the batch in flight is running
C8_Witness ==
    /\ exit /\ Depth = 1
    /\ stack # <<>> /\ Top.kind = "io" /\ ~Top.exitCalled

\* C9: a reader registered by a read callback that also calls exit() has
\* none of its callbacks invoked before run returns.
C9_LateReaderNeverInvoked ==
    \A f \in FlightFrames : ~f.h.late

\* handlers the caller registered that are in the table or being dispatched
UserHandlers == {h \in AllHandlers : h.hid > 1}

\* C11: whenever run is active, exit() has not been called and every handler
\* the caller registered has been dropped from the handler table, run
\* eventually returns.
C11_DrainsNaturally ==
    [](Depth >= 1 /\ ~exit /\ nSrc >= 1 /\ UserHandlers = {} => <>(Depth = 0))

\* C12: the id next_id() predicts stays the id the next add returns across
\* every step that is not an add (remove, register_*, dispatch, ...): add
\* returns the predicted index, so a prediction made at any moment is met
\* exactly when no such step changes it.
C12_PredictionStable ==
    [][nUid' = nUid => NextId' = NextId]_vars

\* C13: right after id = add(v), remove(id) returns v; right after a
\* remove(id) that took the caller's value out, get(id) and a second
\* remove(id) return absent; and a vacant id stays vacant over every step
\* that is not an add.
C13_AddRemoveRoundTrip ==
    [][/\ nUid' = nUid + 1 =>
            \A id \in Ids : id = NextId => (RemoveResult(id))'.uid = nUid + 2
       /\ \A i \in Ids :
            (nRem' = nRem + 1 /\ owner[i] # 0 /\ owner'[i] = 0) =>
                ((Get(i))' = NoObj /\ (RemoveResult(i))' = NoObj)
       /\ \A i \in Ids :
            (~Occupied(objects, i) /\ nUid' = nUid) => ~(Occupied(objects, i))'
      ]_vars

\* a value the caller added has been removed and its id is vacant
C13_Witness ==
    /\ nUid >= 1 /\ nRem >= 1
    /\ \E i \in Ids : i > 0 /\ (i + 1) \in DOMAIN objects.data /\ Get(i) = NoObj
                      /\ ~Occupied(objects, i)

\* every frame of a running user callback, I/O or reaper
CallbackFrames ==
    {stack[k] : k \in {j \in DOMAIN stack : stack[j].kind \in {"io", "rcb"}}}
FrameIndexes(kinds) == {j \in DOMAIN stack : stack[j].kind \in kinds}

\* C14 as claimed: while an I/O callback runs, the handler slot at its token
\* holds no handler and the object slot at its object_id holds no value.
C14_SlotsHoldNothing ==
    \A f \in FlightFrames :
        /\ Occupied(io_handlers, f.token)
        /\ StashVal(io_handlers, f.token) = NoHandler
        /\ Get(f.h.object_id) = NoObj

\* C14 as amended: while an I/O callback runs, the handler slot at its token
\* holds no handler; the callback's object is not in the object store, and
\* the slot at its object_id holds no value unless the callback's object was
\* removed during the callback; no two running callbacks are of the same
\* handler or on the same object.
C14_TakenWhileRunning ==
    /\ \A f \in FlightFrames :
          /\ Occupied(io_handlers, f.token)
          /\ StashVal(io_handlers, f.token) = NoHandler
          /\ f.obj.uid \notin StoreUids
          /\ ~f.selfRemoved => (Occupied(objects, f.h.object_id)
                                 /\ Get(f.h.object_id) = NoObj)
    /\ \A j, k \in FrameIndexes({"io", "rcb"}) :
          j # k => stack[j].obj.uid # stack[k].obj.uid
    /\ \A j, k \in FrameIndexes({"io"}) :
          j # k => (stack[j].h.hid # stack[k].h.hid
                    /\ stack[j].token # stack[k].token)

\* a nested run is dispatching a second I/O callback inside the first
C14_Witness ==
    /\ Depth = 2
    /\ Cardinality(FrameIndexes({"io"})) = 2
    /\ Top.kind = "io"

\* number of places holding the value with uid u: object slots and running
\* callbacks
Places(u) ==
    Cardinality({k \in DOMAIN objects.data :
                   objects.data[k].full /\ objects.data[k].v.uid = u})
    + Cardinality({j \in FrameIndexes({"io", "rcb"}) : stack[j].obj.uid = u})

\* C15: every value the caller has stored and not removed is in exactly one
\* place, its slot or one running dispatch, and it is the value at its id:
\* never in two places, never overwritten or dropped by the dispatcher.
C15_ExactlyOnePlace ==
    \A i \in Ids :
        owner[i] # 0 =>
            /\ Places(owner[i]) = 1
            /\ Get(i).uid \in {0, owner[i]}

\* the reapers a scan began with and those it has probed
StartRids(f) == {f.start[k] : k \in DOMAIN f.start}
ProbedRids(f) == {f.probed[k].rid : k \in DOMAIN f.probed}

\* call_on_object would not run r's callback: nothing at r's object id (slot
\* vacant, or value taken by a dispatch in flight), or a value of another
\* type than the callback's
ObjectAbsentFor(r) == Get(r.object_id).uid = 0 \/ Get(r.object_id).ty # r.ty

\* this step is the turn of a scan for the reaper at the head of the list,
\* whose child has exited: POSIX reap_all with a zombie child, or Windows
\* reap with the child's id received
ScansExitedHead ==
    /\ stack # <<>> /\ stack' # stack /\ reapers # <<>>
    /\ \/ Top.kind = "reap" /\ Top.left > 0 /\ child[Head(reapers).pid] = "zombie"
       \/ Top.kind = "wreap" /\ Top.left > 0 /\ Head(reapers).pid = Top.id

\* process_win::reap is on the stack
WinReapRunning == \E k \in DOMAIN stack : stack[k].kind = "wreap"

\* the loop of lines 76-83 has finished for the id received last
WinPassEnded ==
    /\ stack # <<>>
    /\ Top.kind = "wreap" /\ Top.id # 0 /\ Top.left = 0

\* the scan on top of the stack has no iteration left and returns
ScanReturns ==
    /\ stack # <<>>
    /\ \/ Top.kind = "reap" /\ Top.left = 0
       \/ Top.kind = "creap" /\ Top.i >= Len(reapers)
    /\ stack' = Tail(Below)

\* the handler in the table at an event's token, NoHandler when there is
\* none
HandlerOf(ev) ==
    IF Occupied(io_handlers, ev.token) THEN StashVal(io_handlers, ev.token)
    ELSE NoHandler

\* the dispatch frames that this step finishes: the callback on top returns
\* and no further callback of its handler is due, or reap_all returns
DispatchEnding ==
    IF stack = <<>> THEN {}
    ELSE IF Top.kind = "io" /\ stack' = Below THEN {Top}
    ELSE IF Top.kind \in {"reap", "creap", "wreap"} /\ stack' = Tail(Below)
    THEN {Head(Below)}
    ELSE {}

\* this step of run deals with the next event without calling a callback
EventSkipsCallbacks ==
    /\ stack # <<>> /\ Top.kind = "run" /\ Top.events # <<>>
    /\ stack' = <<[Top EXCEPT !.events = Tail(@)]>> \o Below

\* this step starts a write callback: as the first callback of a dispatch
\* (a frame is pushed), or when the read callback of the same event returns
WriteCallbackStarts ==
    /\ stack' # <<>> /\ stack'[1].kind = "io" /\ stack'[1].stage = "write"
    /\ \/ Len(stack') = Len(stack) + 1
       \/ /\ Len(stack') = Len(stack)
          /\ stack # <<>> /\ Top.kind = "io" /\ Top.stage = "read"

\* this step is the return of the read callback on top of the stack
ReadCallbackReturns ==
    /\ stack # <<>> /\ Top.kind = "io" /\ Top.stage = "read"
    /\ \/ Len(stack') < Len(stack)
       \/ Len(stack') = Len(stack) /\ stack'[1].stage # "read"

\* this step of run takes the handler of the next event and finds the
\* handler's object in the store, and calls no read callback
DispatchWithoutRead ==
    /\ stack # <<>> /\ Top.kind = "run" /\ Top.events # <<>>
    /\ stack' # stack
    /\ HandlerOf(Head(Top.events)).hid # 0
    /\ Get(HandlerOf(Head(Top.events)).object_id).uid # 0
    /\ ~\E k \in DOMAIN stack' :
          /\ k <= Len(stack') - Len(stack)
          /\ stack'[k].kind = "io" /\ stack'[k].stage = "read"

\* positions in st of the user callbacks that have been called and have not
\* returned: I/O callbacks of the caller's handlers and reaper callbacks
UnfinishedUserCallbacks(st) ==
    {k \in DOMAIN st : \/ st[k].kind = "rcb"
                       \/ st[k].kind = "io" /\ st[k].h.rd \notin {"reap_all", "reap", "core_reap_all"}}

\* the event run looks at next is for a handler in the table whose object is
\* stored but is not of the type the handler's callbacks expect
MismatchNext ==
    IF stack = <<>> THEN FALSE
    ELSE /\ Top.kind = "run" /\ Top.events # <<>>
         /\ Occupied(io_handlers, Head(Top.events).token)
         /\ LET h == StashVal(io_handlers, Head(Top.events).token)
            IN  /\ h.hid # 0
                /\ Takeable(objects, h.object_id)
                /\ StashVal(objects, h.object_id).ty # h.ty

\* C16: dispatching an event to a handler whose callbacks expect another
\* type than the stored object's calls no callback, leaves the object store
\* as it was and leaves the handler in its slot.
C16_MismatchIgnored ==
    [][(MismatchNext /\ stack' # stack) =>
          LET token == Head(Top.events).token
              h == StashVal(io_handlers, token)
          IN  /\ stack' = <<[Top EXCEPT !.events = Tail(@)]>> \o Below
              /\ objects' = objects
              /\ Occupied(io_handlers', token)
              /\ StashVal(io_handlers', token) = [h EXCEPT !.fired = TRUE]
      ]_vars

\* a handler for a user type bound to the id of the SIGCHLD stream object has
\* had an event and is still in the table
C16_Witness ==
    \E h \in TableHandlers :
        /\ h.fired /\ h.ty = "A" /\ h.object_id = 0
        /\ Get(0).uid = 1

\* the frame at height b of the stack, the outermost call being at height 1
FromBottom(st, b) == st[Len(st) - b + 1]

\* C17: (a) run looks at the events of a batch in the poller's order, one
\* per dispatch, and the callback it calls is for that event; (b) a write
\* callback is the first callback of a dispatch only when no read callback
\* applies to the event, and otherwise starts when the read callback of the
\* same event returns; (c) while a callback of a run is executing, the rest
\* of that run's batch is not touched.
C17_ReadThenWriteInOrder ==
    [][IF stack = <<>> \/ stack' = stack THEN TRUE ELSE
       /\ (Top.kind = "run" /\ Top.events # <<>>) =>
            /\ Len(stack') >= Len(stack)
            /\ FromBottom(stack', Len(stack)) =
                  [Top EXCEPT !.events = Tail(Top.events)]
            /\ Len(stack') > Len(stack) =>
                  LET f == FromBottom(stack', Len(stack) + 1)
                  IN  /\ f.kind = "io"
                      /\ f.ev = Head(Top.events)
                      /\ f.stage = "write" =>
                            ~(f.ev.readable /\ f.h.rd # "none"
                              /\ f.obj.ty = f.h.ty)
       /\ \A b \in 1 .. Len(stack) :
            (b <= Len(stack') /\ FromBottom(stack, b).kind = "io"
               /\ FromBottom(stack', b).kind = "io"
               /\ FromBottom(stack, b).stage # FromBottom(stack', b).stage) =>
              /\ b = Len(stack) /\ Len(stack') = Len(stack)
              /\ FromBottom(stack, b).stage = "read"
              /\ FromBottom(stack', b).ev = FromBottom(stack, b).ev
       /\ \A b \in 1 .. (Len(stack) - 1) :
            (b <= Len(stack') /\ FromBottom(stack, b).kind = "run") =>
              FromBottom(stack', b) = FromBottom(stack, b)
      ]_vars

\* the write callback of an event that was also readable is running, with
\* another event of the batch still waiting
C17_Witness ==
    /\ stack # <<>> /\ Top.kind = "io" /\ Top.stage = "write"
    /\ Top.ev.readable /\ Top.ev.writable /\ Top.h.rd = "user"
    /\ Head(Below).kind = "run" /\ Head(Below).events # <<>>

\* C18: a step of the OS side (a child terminating, the thread-pool wait
\* callback running) changes nothing of the Core: the object store, the
\* handler table, the reaper list, the exit flag and the reactor's stack
\* stay as they are and no reaper callback is invoked; the wait callback
\* only appends its child's id to the channel.
C18_OsThreadOnlySendsId ==
    [][/\ win'.fired # win.fired =>
            /\ \E w \in win.waits : win'.chan = Append(win.chan, w.pid)
            /\ UNCHANGED <<objects, io_handlers, reapers, exit, stack, rinv>>
       /\ child' # child =>
            UNCHANGED <<objects, io_handlers, reapers, exit, stack, rinv>>]_vars

\* an id sent by the wait callback is in the channel while a reaper
\* callback runs on the reactor thread
C18_Witness ==
    /\ win.fired >= 1 /\ win.chan # <<>>
    /\ stack # <<>> /\ Top.kind = "rcb"

\* C19 as stated: a reaper callback starts only for a child that has
\* terminated, and only when no user callback that started earlier is still
\* unfinished.
C19_NeverInsideUserCallback ==
    [][\A p \in Pids : rinv'[p] # rinv[p] =>
          /\ child[p] = "zombie"
          /\ UnfinishedUserCallbacks(stack) = {}]_vars

\* C19: a reaper callback starts only for a child that has terminated and
\* has not been reaped, and only from reap_all running as the read callback
\* of the process handler; a user callback that started earlier and has not
\* returned is one that called run itself and waits for that call.
C19_OnlyFromReapAllAfterExit ==
    [][\A p \in Pids : rinv'[p] # rinv[p] =>
          /\ child[p] = "zombie"
          /\ Len(stack) >= 3
          /\ stack[1].kind = "reap"
          /\ stack[2].kind = "io" /\ stack[2].h.rd = "reap_all"
          /\ stack[2].stage = "read"
          /\ stack[3].kind = "run"
          /\ \A k \in UnfinishedUserCallbacks(stack) :
                k > 1 /\ stack[k - 1].kind = "run"]_vars

\* a reaper callback runs in a run that an unfinished user callback called
C19_Witness ==
    /\ stack # <<>> /\ Top.kind = "rcb"
    /\ UnfinishedUserCallbacks(Below) # {}

\* C20: while an I/O callback or a reaper callback runs, register_reaper
\* can be called without panicking: in looper it only appends to the reaper
\* list, in looper_core it first has to find the ProcessHandler at object
\* id 0.  Stated for programs that have not called remove.
C20_RegisterReaperNeverPanics ==
    (stack # <<>> /\ nRem = 0) =>
        (Top.kind \in {"io", "rcb"} => ~CoreRegisterReaperPanics)

\* C21: every construction call that has been made with a failing OS call
\* underneath gave its caller an error value: Core::new when the signal
\* stream, the poller or the stream's registration fails, spawn when the
\* launch or a pipe's fcntl fails, register_* when the poller's register
\* fails.
C21_FailuresSurface ==
    /\ (build.core # "none"
          /\ (build.fail.signals \/ build.fail.poll \/ build.fail.regSignals))
        => build.core = "err"
    /\ (build.spawn # "none"
          /\ (build.fail.launch \/ build.fail.stdin \/ build.fail.stdout
                \/ build.fail.stderr))
        => build.spawn = "err"
    /\ (build.reg # "none" /\ build.fail.register) => build.reg = "err"

\* C22: in a POSIX scan, probing a reaper whose child runs leaves it
\* registered and calls nothing; probing one whose child has terminated
\* removes it and calls its callback on the object taken from its slot,
\* which is put back when the callback returns; probing one whose child
\* cannot be waited for removes that reaper alone, calls nothing, and the
\* scan goes on.  Stated for the rotation of looper and for the indexed
\* loop of looper_core.
C22_ProbeOutcomes ==
    [][IF stack = <<>> \/ stack' = <<>> \/ stack' = stack THEN TRUE
       ELSE
       /\ (Top.kind = "reap" /\ Top.left > 0) =>
            LET r == Head(reapers)
                bound == Takeable(objects, r.object_id)
                           /\ StashVal(objects, r.object_id).ty = r.ty
            IN  CASE child[r.pid] = "running" ->
                       /\ reapers' = Append(Tail(reapers), r)
                       /\ rinv' = rinv /\ objects' = objects
                       /\ stack'[1].kind = "reap"
                  [] child[r.pid] = "zombie" ->
                       /\ reapers' = Tail(reapers)
                       /\ IF bound
                          THEN /\ stack'[1].kind = "rcb" /\ stack'[1].r = r
                               /\ stack'[1].obj = StashVal(objects, r.object_id)
                               /\ ~Takeable(objects', r.object_id)
                               /\ rinv' = [rinv EXCEPT ![r.pid] = @ + 1]
                          ELSE rinv' = rinv /\ objects' = objects
                  [] OTHER ->
                       /\ reapers' = Tail(reapers)
                       /\ rinv' = rinv /\ objects' = objects
                       /\ stack'[1].kind = "reap"
                       /\ stack'[1].left = Top.left - 1
       /\ (Top.kind = "creap" /\ Top.i < Len(reapers)) =>
            LET r == reapers[Top.i + 1]
                bound == Takeable(objects, r.object_id)
                           /\ StashVal(objects, r.object_id).ty = r.ty
            IN  CASE child[r.pid] = "running" ->
                       /\ reapers' = reapers
                       /\ rinv' = rinv /\ objects' = objects
                       /\ stack'[1].kind = "creap" /\ stack'[1].i = Top.i + 1
                  [] child[r.pid] = "zombie" ->
                       IF bound
                       THEN /\ stack'[1].kind = "rcb" /\ stack'[1].r = r
                            /\ stack'[1].obj = StashVal(objects, r.object_id)
                            /\ ~Takeable(objects', r.object_id)
                            /\ rinv' = [rinv EXCEPT ![r.pid] = @ + 1]
                       ELSE /\ Rids(reapers') = Rids(SwapRemove(reapers, Top.i))
                            /\ rinv' = rinv /\ objects' = objects
                  [] OTHER ->
                       /\ \A k \in DOMAIN reapers' : reapers'[k].rid # r.rid
                       /\ Len(reapers') = Len(reapers) - 1
                       /\ rinv' = rinv /\ objects' = objects
                       /\ stack'[1].kind = "creap"
       /\ (Top.kind = "rcb" /\ stack' = Below) =>
            /\ ObjAlive(objects, Top.r.object_id) =>
                  StashVal(objects', Top.r.object_id) = Top.obj
            /\ Head(Below).kind = "creap" =>
                  \A k \in DOMAIN reapers' : reapers'[k].rid # Top.r.rid]_vars

\* a scan is going on in which a probe failed and a later reaper was probed
C22_Witness ==
    /\ stack # <<>> /\ Top.kind = "reap"
    /\ \E k \in DOMAIN Top.probed :
          Top.probed[k].res = "error" /\ k < Len(Top.probed)

\* C23: a scan that has begun probes every reaper that was registered when
\* it began exactly once: when the scan returns, its probes are one per
\* such reaper, and a reaper of those that is still registered was reported
\* alive; and nothing stops the thread while a scan still has such a reaper
\* to probe, also when a reaper callback registers a further reaper.
C23_FullScanEachOnce ==
    [][IF stack = <<>> \/ stack' = stack THEN TRUE
       ELSE
       /\ ScanReturns =>
            /\ Len(Top.probed) = Len(Top.start)
            /\ ProbedRids(Top) = StartRids(Top)
            /\ \A k \in DOMAIN reapers :
                  reapers[k].rid \in StartRids(Top) =>
                     \E j \in DOMAIN Top.probed :
                        /\ Top.probed[j].rid = reapers[k].rid
                        /\ Top.probed[j].res = "alive"
       /\ (stack' # <<>> /\ stack'[1].kind = "panic") =>
            \A k \in DOMAIN stack :
               stack[k].kind \in {"reap", "creap"} =>
                  StartRids(stack[k]) \subseteq ProbedRids(stack[k])]_vars

\* C24: when a scan returns, the reapers it began with that are still
\* registered are in the list in the order they had when it began, and the
\* reapers registered during the scan come after all of them.
C24_ScanKeepsOrder ==
    [][ScanReturns =>
          /\ SelectSeq(Rids(reapers), LAMBDA x : x \in StartRids(Top))
               = SelectSeq(Top.start,
                           LAMBDA x : \E k \in DOMAIN reapers : reapers[k].rid = x)
          /\ \A j, k \in DOMAIN reapers :
                (j < k /\ reapers[k].rid \in StartRids(Top))
                   => reapers[j].rid \in StartRids(Top)]_vars

\* C25: a register_* call stores its handler in the slot of the token it
\* gave the poller; before the call that slot held no handler, neither in
\* the table nor taken out of it for a dispatch in progress; and no step
\* puts another handler in a slot that holds one, so the restore after a
\* callback never overwrites a registration.
C25_FreshTokenForHandler ==
    [][/\ nSrc' # nSrc =>
            LET t == StashNextIndex(io_handlers)
            IN  /\ \E g \in regs' \ regs : g.src = nSrc + 1 /\ g.token = t
                /\ Occupied(io_handlers', t)
                /\ StashVal(io_handlers', t).hid = nSrc + 2
                /\ ~Occupied(io_handlers, t)
                /\ \A f \in FlightFrames : f.token # t
       /\ \A k \in Ids :
            (Occupied(io_handlers, k) /\ StashVal(io_handlers, k).hid # 0
               /\ Occupied(io_handlers', k))
            => StashVal(io_handlers', k).hid \in {0, StashVal(io_handlers, k).hid}
       ]_vars

\* a read callback is running, its handler out of its slot, and a handler
\* it registered is in the table at another token
C25_Witness ==
    /\ stack # <<>> /\ Top.kind = "io" /\ Top.regd # {}
    /\ Occupied(io_handlers, Top.token)
    /\ \E k \in Ids \ {Top.token} :
          Occupied(io_handlers, k) /\ StashVal(io_handlers, k).hid \in Top.regd

\* C26: a handler whose object stays in the store survives every dispatch
\* of its token: when a dispatch whose callbacks did not remove the object
\* finishes, the handler is in its slot as it was and the object is in its
\* slot; and an event that finds the handler while its object's slot exists
\* (the value there, or out for a dispatch in progress) leaves the handler
\* in the table.
C26_HandlerSurvivesDispatch ==
    [][IF stack = <<>> THEN TRUE
       ELSE
       /\ \A f \in DispatchEnding :
            ~f.selfRemoved =>
               /\ Occupied(io_handlers', f.token)
               /\ StashVal(io_handlers', f.token) = f.h
               /\ Occupied(objects', f.h.object_id)
               /\ StashVal(objects', f.h.object_id) = f.obj
       /\ (EventSkipsCallbacks /\ HandlerOf(Head(Top.events)).hid # 0
             /\ ObjAlive(objects, HandlerOf(Head(Top.events)).object_id)) =>
            /\ Occupied(io_handlers', Head(Top.events).token)
            /\ StashVal(io_handlers', Head(Top.events).token).hid
                 = HandlerOf(Head(Top.events)).hid]_vars

\* C27: on Windows, when reap receives an id from the channel, the reaper
\* whose sentinel sent it has been put in the reaper list before, whether
\* the id was sent by the wait callback on the thread-pool thread or by
\* register_reaper itself for a child that had exited, also during a drain.
C27_IdConsumedAfterEnqueue ==
    [][(win'.chan # win.chan /\ Len(win'.chan) < Len(win.chan)) =>
          Head(win.by) \in win.pushed]_vars

\* an id is received during a drain in which a reaper callback has
\* registered the reaper of a child that had already exited
C27_Witness ==
    /\ stack # <<>> /\ Top.kind = "wreap" /\ Top.left > 0
    /\ Top.id \in lateReg
    /\ rinv # [p \in Pids |-> 0]
    /\ \E k \in DOMAIN reapers : reapers[k].pid = Top.id
    /\ win.pushed # {}

\* C28: Windows reap returns only when the channel is empty, and at the end
\* of the pass made for one received id, the reapers handed to
\* call_on_object are exactly those of the list at the start of the pass
\* whose child id is the received one, in list order; these are no longer
\* in the list, and the other reapers of the start are all in the list in
\* the order they had; when none matched, the list is what it was.
C28_DrainDispatchesMatching ==
    /\ [][(stack # <<>> /\ Top.kind = "wreap" /\ ~WinReapRunning') =>
             win.chan = <<>>]_vars
    /\ [](WinPassEnded =>
            LET f == Top
                match == SelectSeq(f.start, LAMBDA r : r.pid = f.id)
                other == SelectSeq(f.start, LAMBDA r : r.pid # f.id)
                old == {f.start[k].rid : k \in DOMAIN f.start}
            IN  /\ f.disp = Rids(match)
                /\ SelectSeq(reapers, LAMBDA r : r.rid \in old) = other
                /\ match = <<>> => reapers = f.start)

\* a pass has ended that dispatched two reapers of the received id and kept
\* a reaper of another child
C28_Witness ==
    /\ WinPassEnded
    /\ Len(Top.disp) = 2
    /\ \E k \in DOMAIN reapers : reapers[k].pid # Top.id

\* C29: a handler's read or write callback runs only for an event of the
\* source the handler was registered with, also when the handler's token
\* was held before by a dropped handler whose source is still registered
\* with the poller or has an event left in the current batch.
C29_OnlyOwnSourceEvents ==
    \A f \in FlightFrames : f.ev.src = SourceOf(f.h)

\* C30: when a scan reaches a reaper whose child has exited and whose object
\* is absent (slot vacant, value taken by a dispatch in flight, or of
\* another type), no reaper callback starts and the entry leaves the list;
\* and an entry comes into the list only by register_reaper, as the new
\* entry that call has built, so a discarded entry is not scanned again.
C30_AbsentObjectDiscards ==
    [][/\ (ScansExitedHead /\ ObjectAbsentFor(Head(reapers))) =>
            /\ rinv' = rinv
            /\ stack' # <<>> /\ stack'[1].kind # "rcb"
            /\ \A k \in DOMAIN reapers' : reapers'[k].rid # Head(reapers).rid
       /\ \A k \in DOMAIN reapers' :
            \/ \E j \in DOMAIN reapers : reapers[j].rid = reapers'[k].rid
            \/ reapers'[k].rid > nReap
            \/ /\ stack # <<>> /\ Top.kind = "wreg"
               /\ reapers'[k].rid = Top.r.rid]_vars

\* a scan has reaped a child without calling its reaper's callback, the
\* entry is gone from the list and other reapers are still registered
C30_Witness ==
    /\ stack # <<>> /\ Top.kind = "reap" /\ Top.probed # <<>>
    /\ reapers # <<>>
    /\ \E p \in Pids : /\ child[p] = "reaped" /\ rinv[p] = 0
                       /\ \A k \in DOMAIN reapers : reapers[k].pid # p

\* C31 as stated: in the dispatch of an event to a handler whose object is
\* in the store, the write callback is called if and only if the event is
\* writable and the handler has a write callback: as the first callback
\* when no read callback is called, and otherwise when the read callback
\* returns, whatever that callback did.
C31_WriteIffWritable ==
    [][/\ DispatchWithoutRead =>
            LET ev == Head(Top.events)
                h == HandlerOf(ev)
            IN  WriteCallbackStarts <=> (ev.writable /\ h.wr # "none")
       /\ ReadCallbackReturns =>
            (WriteCallbackStarts <=> (Top.ev.writable /\ Top.h.wr # "none"))]_vars

\* C31: the same with the type of the object taken into account.  When no
\* read callback is called, the write callback is called if and only if
\* the event is writable, the handler has a write callback and the object
\* has the callback's type.  When the read callback returns, the write
\* callback is called if and only if the event is writable and the handler
\* has a write callback, whatever the read callback did; it is then called
\* for the same event on the same taken value, with the handler still out
\* of its slot, the store untouched and run still on the stack.
C31_WriteAfterReadRegardless ==
    [][/\ DispatchWithoutRead =>
            LET ev == Head(Top.events)
                h == HandlerOf(ev)
                obj == Get(h.object_id)
            IN  WriteCallbackStarts <=>
                    (ev.writable /\ h.wr # "none" /\ obj.ty = h.ty)
       /\ ReadCallbackReturns =>
            /\ WriteCallbackStarts <=> (Top.ev.writable /\ Top.h.wr # "none")
            /\ WriteCallbackStarts =>
                  /\ stack'[1].obj = Top.obj
                  /\ stack'[1].ev = Top.ev
                  /\ stack'[1].h = Top.h
                  /\ stack'[1].token = Top.token
                  /\ Tail(stack') = Below
                  /\ UNCHANGED <<objects, io_handlers, exit>>]_vars

\* a write callback is running on the taken value after the read callback
\* of the same event removed the handler's object and called exit()
C31_Witness ==
    /\ stack # <<>> /\ Top.kind = "io" /\ Top.stage = "write"
    /\ Top.readDid.removed /\ Top.readDid.exit
    /\ Top.obj.uid # 0
    /\ exit

\* C10: run leaves its loop exactly when the top-of-loop check sees the exit
\* flag set or the handler table without slots: it returns only then, and
\* it waits on the poller only otherwise.
C10_LeavesLoopExactly ==
    /\ lastTop.act = "ret" => (lastTop.exit \/ lastTop.empty)
    /\ lastTop.act = "poll" => (~lastTop.exit /\ ~lastTop.empty)

\* run returned because the handler table had drained, exit not called
C10_Witness ==
    lastTop.act = "ret" /\ lastTop.empty /\ ~lastTop.exit
====
